---------------------------- MODULE Spec2Model ----------------------------
(***************************************************************************)
(* Reference-Scanner (RefCheck backend): the reference enrichment and      *)
(* link-verification pipeline.                                             *)
(*                                                                         *)
(*   backend/services/url_checker.py       URLChecker.check_url            *)
(*   backend/services/reference_linker.py  ReferenceLinker                 *)
(*   backend/main.py                       PRIORITY, upload_pdf            *)
(*                                                                         *)
(* Seven specifications share the module:                                  *)
(*   SpecCheck     one call of URLChecker.check_url                        *)
(*   SpecRecheck   two calls of check_url against one fixed transport      *)
(*   SpecAgg       the status aggregation of upload_pdf on one status list *)
(*   SpecDiscover  direct calls of ReferenceLinker._process_reference      *)
(*   SpecPool      the same calls with a pool of more keys than attempts   *)
(*   SpecBatch     ReferenceLinker.enrich followed by upload_pdf's loop    *)
(*   SpecBatchFair the batch with scheduled threads and answered requests  *)
(* Strings that the code inspects character by character are sequences of  *)
(* one-character strings.                                                  *)
(***************************************************************************)
EXTENDS Integers, Sequences, FiniteSets, TLC

VARIABLES
    \* ---- URLChecker.check_url (one call) ----
    url,            \* the argument, then the normalized url (local rebound at line 57-62)
    status_code,    \* the local status_code of check_url
    cu_pc,          \* position inside check_url
    cu_result,      \* the value check_url returned
    probes,         \* requests issued through self.session, in order
    transport,      \* a fixed transport: its answer to a probe with each method
                    \* ("none" where the transport answers as it likes)
    first_run,      \* history: argument, result and probes of an earlier call
    \* ---- status aggregation of upload_pdf (one reference) ----
    statuses,       \* the local list statuses
    overall_status, \* the local overall_status
    agg_pc,
    \* ---- ReferenceLinker (the object constructed at main.py line 64) ----
    enable_search,  \* self.enable_search
    serpapi_keys,   \* self.serpapi_keys
    max_workers,    \* self.max_workers
    serpapi_index,  \* self._serpapi_index
    serpapi_lock,   \* self._serpapi_lock: 0 when free, else the task holding it
    draws,          \* history: the keys _next_serpapi_key has returned, in the order
                    \* in which the calls left the with block
    json_error_is_request_exception,
                    \* whether the installed requests raises its own JSONDecodeError
                    \* (a RequestException as well as a ValueError) from
                    \* response.json(), or a plain ValueError
    references,     \* the reference dicts, mutated in place: references[i] is object i
    input,          \* the reference dicts as they were handed in
    task,           \* per reference: the frame of its _process_reference call
    calls,          \* direct calls of _process_reference made so far
    \* ---- the thread running enrich and then upload_pdf's loop ----
    main_pc,
    enriched,       \* the list enriched: 0 is None, i is the object references[i]
    yielded,        \* futures as_completed has yielded, in that order
    ref_statuses,   \* upload_pdf's local statuses for the reference in progress
    final_references,
    checks          \* calls of url_checker.check_url so far: <<reference, url, status returned or Pending>>

twinVars == <<transport, first_run>>
chkVars == <<url, status_code, cu_pc, cu_result, probes, twinVars>>
aggVars == <<statuses, overall_status, agg_pc>>
linkVars == <<enable_search, serpapi_keys, max_workers, serpapi_index, serpapi_lock, draws,
              json_error_is_request_exception, references, input, task, calls>>
mainVars == <<main_pc, enriched, yielded, ref_statuses, final_references, checks>>
vars == <<chkVars, aggVars, linkVars, mainVars>>

notChk == <<aggVars, linkVars, mainVars, twinVars>>
notAgg == <<chkVars, linkVars, mainVars>>
confVars == <<enable_search, serpapi_keys, max_workers, json_error_is_request_exception,
              input, calls>>

(***************************************************************************)
(* Generic helpers on sequences.                                           *)
(***************************************************************************)
Range(s) == {s[i] : i \in 1..Len(s)}

SeqsUpTo(S, n) == UNION {[1..k -> S] : k \in 0..n}

\* Python str.startswith(p)
StartsWith(s, p) == Len(s) >= Len(p) /\ SubSeq(s, 1, Len(p)) = p

\* Python str.replace(c, '') for every c of chars
RemoveAll(s, chars) == SelectSeq(s, LAMBDA c : c \notin chars)

\* Python str.strip(): whitespace removed at both ends
Whitespace == {" ", "\n", "\r", "\t", "\f"}

RECURSIVE LStrip(_)
LStrip(s) == IF s # <<>> /\ Head(s) \in Whitespace THEN LStrip(Tail(s)) ELSE s

RECURSIVE RStripSet(_, _)
RStripSet(s, chars) ==
    IF s # <<>> /\ s[Len(s)] \in chars
    THEN RStripSet(SubSeq(s, 1, Len(s) - 1), chars)
    ELSE s

Strip(s) == RStripSet(LStrip(s), Whitespace)

(***************************************************************************)
(* URLChecker.check_url                                                    *)
(***************************************************************************)
HttpsPrefix == <<"h", "t", "t", "p", "s", ":", "/", "/">>
HttpPrefix  == <<"h", "t", "t", "p", ":", "/", "/">>

\* Arguments check_url is called with: a string, or (a JSON value that is not a
\* string, taken over unchanged from a search response) something without .replace
UrlInputs ==
    { [isstr |-> TRUE,  s |-> HttpsPrefix \o <<"a">>],
      [isstr |-> TRUE,  s |-> HttpPrefix \o <<"a">>],
      [isstr |-> TRUE,  s |-> <<"a">>],
      [isstr |-> TRUE,  s |-> <<"h", "t", " ", "t", "p", ":", "/", "/", "a", "\n">>],
      [isstr |-> TRUE,  s |-> <<"\f", "a", " ", "b", "\t">>],
      [isstr |-> TRUE,  s |-> <<>>],
      [isstr |-> FALSE, s |-> <<>>] }

\* lines 57-62: remove blanks, strip, add the scheme when missing
Normalize(u) ==
    LET t == Strip(RemoveAll(u, {" ", "\n", "\r", "\t"}))
    IN  IF StartsWith(t, HttpPrefix) \/ StartsWith(t, HttpsPrefix)
        THEN t
        ELSE HttpsPrefix \o t

\* Status codes a server may answer with
Codes == {199, 200, 204, 301, 399, 400, 401, 403, 404, 405, 410, 429, 499, 500, 503, 600}

\* What the transport does with one request: answers with a code, times out
\* (requests.exceptions.Timeout), fails with another RequestException, or
\* fails with an exception that is no RequestException.
TransportOutcomes ==
    [kind : {"code"}, code : Codes]
        \cup {[kind |-> k, code |-> 0] : k \in {"timeout", "reqerror", "error"}}

\* status_code values: a number, the string "Timeout", or None
ScCode(c) == [kind |-> "code", code |-> c]
ScTimeout == [kind |-> "timeout", code |-> 0]
ScNone    == [kind |-> "none", code |-> 0]
ScUnset   == [kind |-> "unset", code |-> 0]

\* _request (lines 37-53): the value it returns for a transport outcome that
\* it handles; an outcome of kind "error" is not handled and propagates.
RequestMutTimeoutAsNone(o) ==
    CASE o.kind = "code"     -> ScCode(o.code)
      [] o.kind = "timeout"  -> ScNone
      [] o.kind = "reqerror" -> ScNone

Request(o) ==
    CASE o.kind = "code"     -> ScCode(o.code)
      [] o.kind = "timeout"  -> ScTimeout
      [] o.kind = "reqerror" -> ScNone

\* line 69: status_code is None or status_code >= 400
NeedsFallbackMutServerOnly(sc) == sc.kind = "none" \/ (sc.kind = "code" /\ sc.code >= 500)

NeedsFallbackMutOncePerSession(sc) ==
    ~first_run.done /\ (sc.kind = "none" \/ (sc.kind = "code" /\ sc.code >= 400))

NeedsFallback(sc) == sc.kind = "none" \/ (sc.kind = "code" /\ sc.code >= 400)

\* lines 73-74: the fallback GET failed with a non-timeout RequestException
GetFailedStatusMutNotWorking == "Not Working"

GetFailedStatus == "Broken"

\* lines 77-83: classification of a numeric status code
ClassifyMutRangeFirst(c) ==
    IF 200 <= c /\ c < 400 THEN "Working"
    ELSE IF 400 <= c /\ c < 500 THEN "Broken"
    ELSE IF c \in {401, 403, 405, 429} THEN "Working"
    ELSE "Not Working"

Classify(c) ==
    IF c \in {401, 403, 405, 429} THEN "Working"
    ELSE IF 200 <= c /\ c < 400 THEN "Working"
    ELSE IF 400 <= c /\ c < 500 THEN "Broken"
    ELSE "Not Working"

\* lines 85-87: any exception raised inside the try block is caught
LocalErrorStatusMutRaise == "raised"

LocalErrorStatus == "Broken"

\* A URL without a host: requests refuses to prepare the request and raises
\* InvalidURL, a RequestException, from self.session.head / .get (lines 40-45)
Malformed(u) == u \in {HttpPrefix, HttpsPrefix}

\* what the transport may do with a request for u
OutcomesFor(u) ==
    IF Malformed(u) THEN {o \in TransportOutcomes : o.kind = "reqerror"}
    ELSE TransportOutcomes

NoResult == "none"

NoTransport == "none"

NoRun == [done |-> FALSE, arg |-> [isstr |-> TRUE, s |-> <<>>], result |-> NoResult, probes |-> <<>>]

ChkInit ==
    /\ url \in UrlInputs
    /\ status_code = ScUnset
    /\ cu_pc = "normalize"
    /\ cu_result = NoResult
    /\ probes = <<>>
    /\ transport = NoTransport
    /\ first_run = NoRun

ChkIdle ==
    /\ url = [isstr |-> TRUE, s |-> <<>>]
    /\ status_code = ScUnset
    /\ cu_pc = "idle"
    /\ cu_result = NoResult
    /\ probes = <<>>
    /\ transport = NoTransport
    /\ first_run = NoRun

\* lines 55-62. A value without .replace raises inside the try: line 85-87.
CuNormalize ==
    /\ cu_pc = "normalize"
    /\ IF url.isstr
       THEN /\ url' = [url EXCEPT !.s = Normalize(url.s)]
            /\ cu_pc' = "head"
            /\ cu_result' = cu_result
       ELSE /\ url' = url
            /\ cu_pc' = "done"
            /\ cu_result' = LocalErrorStatus
    /\ UNCHANGED <<status_code, probes>>
    /\ UNCHANGED notChk

\* lines 64-66: status_code = _request("head"); a timeout returns "Timeout"
CuHead(o) ==
    /\ cu_pc = "head"
    /\ o \in OutcomesFor(url.s)
    /\ probes' = Append(probes, [method |-> "head", url |-> url.s, outcome |-> o])
    /\ IF o.kind = "error"
       THEN /\ cu_pc' = "done"
            /\ cu_result' = LocalErrorStatus
            /\ status_code' = status_code
       ELSE /\ status_code' = Request(o)
            /\ IF Request(o) = ScTimeout
               THEN cu_pc' = "done" /\ cu_result' = "Timeout"
               ELSE cu_pc' = "fallback" /\ cu_result' = cu_result
    /\ url' = url
    /\ UNCHANGED notChk

\* a check_url that issues the GET again when it failed
AfterFailedGetMutRetry == IF Len(probes) < 3 THEN "fallback" ELSE "done"

\* lines 73-74: a GET that gave None returns at once, the call is over
AfterFailedGet == "done"

\* lines 69-74: the fallback GET
CuGet(o) ==
    /\ cu_pc = "fallback"
    /\ NeedsFallback(status_code)
    /\ o \in OutcomesFor(url.s)
    /\ probes' = Append(probes, [method |-> "get", url |-> url.s, outcome |-> o])
    /\ IF o.kind = "error"
       THEN /\ cu_pc' = "done"
            /\ cu_result' = LocalErrorStatus
            /\ status_code' = status_code
       ELSE /\ status_code' = Request(o)
            /\ IF Request(o) = ScTimeout
               THEN cu_pc' = "done" /\ cu_result' = "Timeout"
               ELSE IF Request(o) = ScNone
                    THEN cu_pc' = AfterFailedGet /\ cu_result' = GetFailedStatus
                    ELSE cu_pc' = "classify" /\ cu_result' = cu_result
    /\ url' = url
    /\ UNCHANGED notChk

\* line 69 false: no fallback
CuNoFallback ==
    /\ cu_pc = "fallback"
    /\ ~NeedsFallback(status_code)
    /\ cu_pc' = "classify"
    /\ UNCHANGED <<url, status_code, cu_result, probes>>
    /\ UNCHANGED notChk

\* lines 77-83
CuClassify ==
    /\ cu_pc = "classify"
    /\ cu_result' = Classify(status_code.code)
    /\ cu_pc' = "done"
    /\ UNCHANGED <<url, status_code, probes>>
    /\ UNCHANGED notChk

ChkNext ==
    \/ CuNormalize
    \/ \E o \in TransportOutcomes : CuHead(o)
    \/ \E o \in TransportOutcomes : CuGet(o)
    \/ CuNoFallback
    \/ CuClassify

(***************************************************************************)
(* check_url called twice with one argument against one fixed transport    *)
(***************************************************************************)
\* a call of check_url against a transport that answers every HEAD alike and
\* every GET alike
RecheckInit ==
    /\ url \in UrlInputs
    /\ status_code = ScUnset
    /\ cu_pc = "normalize"
    /\ cu_result = NoResult
    /\ probes = <<>>
    /\ transport \in [{"head", "get"} ->
                         OutcomesFor(IF url.isstr THEN Normalize(url.s) ELSE <<>>)]
    /\ first_run = [NoRun EXCEPT !.arg = url]

\* url_checker.check_url(url) is called again with the same argument: new
\* locals, the same self.session
CheckAgain ==
    /\ cu_pc = "done"
    /\ ~first_run.done
    /\ first_run' = [first_run EXCEPT !.done = TRUE, !.result = cu_result, !.probes = probes]
    /\ url' = first_run.arg
    /\ status_code' = ScUnset
    /\ cu_pc' = "normalize"
    /\ cu_result' = NoResult
    /\ probes' = <<>>
    /\ UNCHANGED <<transport, aggVars, linkVars, mainVars>>

RecheckNext ==
    \/ CuNormalize
    \/ CuHead(transport["head"])
    \/ CuGet(transport["get"])
    \/ CuNoFallback
    \/ CuClassify
    \/ CheckAgain

(***************************************************************************)
(* Status aggregation (main.py, PRIORITY and upload_pdf lines 254-257)     *)
(***************************************************************************)
MaxUrls == 3

PRIORITYMutSwapped == <<"Timeout", "Broken", "Not Working", "Working">>

PRIORITY == <<"Broken", "Timeout", "Not Working", "Working">>

UrlStatus == {"Working", "Not Working", "Timeout", "Broken"}

\* PRIORITY.index(s)
PriorityIndex(s) == CHOOSE i \in 1..Len(PRIORITY) : PRIORITY[i] = s

\* sorted(statuses, key=...): a stable insertion sort
RECURSIVE InsertByKey(_, _)
InsertByKey(sorted, s) ==
    IF sorted = <<>> THEN <<s>>
    ELSE IF PriorityIndex(s) < PriorityIndex(Head(sorted))
         THEN <<s>> \o sorted
         ELSE <<Head(sorted)>> \o InsertByKey(Tail(sorted), s)

RECURSIVE SortedByPriority(_)
SortedByPriority(ss) ==
    IF ss = <<>> THEN <<>>
    ELSE InsertByKey(SortedByPriority(SubSeq(ss, 1, Len(ss) - 1)), ss[Len(ss)])

\* lines 254-257
OverallStatus(ss) ==
    IF ss # <<>> THEN SortedByPriority(ss)[1] ELSE "Unknown"

AggInit ==
    /\ statuses \in SeqsUpTo(UrlStatus, MaxUrls)
    /\ overall_status = NoResult
    /\ agg_pc = "collect"

AggIdle ==
    /\ statuses = <<>>
    /\ overall_status = NoResult
    /\ agg_pc = "idle"

Aggregate ==
    /\ agg_pc = "collect"
    /\ overall_status' = OverallStatus(statuses)
    /\ agg_pc' = "done"
    /\ UNCHANGED statuses
    /\ UNCHANGED notAgg

AggNext == Aggregate

(***************************************************************************)
(* ReferenceLinker: pure helpers                                           *)
(***************************************************************************)
Str_arxiv  == <<"a", "r", "x", "i", "v", ":">>
ArxivAbs   == <<"h", "t", "t", "p", "s", ":", "/", "/", "a", "r", "x", "i", "v",
                ".", "o", "r", "g", "/", "a", "b", "s", "/">>
DoiOrg     == <<"h", "t", "t", "p", "s", ":", "/", "/", "d", "o", "i", ".", "o", "r", "g", "/">>

LowerCase == <<"a", "b", "c", "d", "e", "f", "g", "h", "i", "j", "k", "l", "m",
               "n", "o", "p", "q", "r", "s", "t", "u", "v", "w", "x", "y", "z">>
UpperCase == <<"A", "B", "C", "D", "E", "F", "G", "H", "I", "J", "K", "L", "M",
               "N", "O", "P", "Q", "R", "S", "T", "U", "V", "W", "X", "Y", "Z">>
Digits == {"0", "1", "2", "3", "4", "5", "6", "7", "8", "9"}

\* re.IGNORECASE: letters compare by their lower case
Lower(c) ==
    IF c \in Range(UpperCase)
    THEN LowerCase[CHOOSE i \in 1..Len(UpperCase) : UpperCase[i] = c]
    ELSE c

\* the class [a-zA-Z0-9./-]
IsIdChar(c) == c \in Range(LowerCase) \cup Range(UpperCase) \cup Digits \cup {".", "/", "-"}

\* \s of the pattern
IsSpace(c) == c \in {" ", "\t", "\n", "\r", "\f"}

\* "arXiv:" matches at position p, letters by case-insensitive comparison
MarkerAtMutCaseSensitive(text, p) ==
    /\ p + Len(Str_arxiv) - 1 <= Len(text)
    /\ SubSeq(text, p, p + Len(Str_arxiv) - 1) = <<"a", "r", "X", "i", "v", ":">>

MarkerAt(text, p) ==
    /\ p + Len(Str_arxiv) - 1 <= Len(text)
    /\ \A k \in 1..Len(Str_arxiv) : Lower(text[p + k - 1]) = Str_arxiv[k]

\* \s*: first position >= p that holds no white space (Len + 1 when none)
RECURSIVE SkipSpaces(_, _)
SkipSpaces(text, p) ==
    IF p <= Len(text) /\ IsSpace(text[p]) THEN SkipSpaces(text, p + 1) ELSE p

\* [a-zA-Z0-9./-]*: first position >= p that holds no identifier character
RECURSIVE SkipIdChars(_, _)
SkipIdChars(text, p) ==
    IF p <= Len(text) /\ IsIdChar(text[p]) THEN SkipIdChars(text, p + 1) ELSE p

\* pattern.findall(text), line 73-74: matches from left to right, not overlapping;
\* each match is the text of group 1
RECURSIVE FindAll(_, _)
FindAll(text, p) ==
    IF p > Len(text) THEN <<>>
    ELSE IF MarkerAt(text, p)
         THEN LET a == SkipSpaces(text, p + Len(Str_arxiv))
                  b == SkipIdChars(text, a)
              IN  IF b > a
                  THEN <<SubSeq(text, a, b - 1)>> \o FindAll(text, b)
                  ELSE FindAll(text, p + 1)
         ELSE FindAll(text, p + 1)

\* match.strip().rstrip(".,;:"), line 78
Identifier(match) == RStripSet(Strip(match), {".", ",", ";", ":"})

\* lines 75-82
RECURSIVE LinksOf(_)
LinksOf(matches) ==
    IF matches = <<>> THEN <<>>
    ELSE LET identifier == Identifier(Head(matches))
         IN  (IF identifier # <<>> THEN <<ArxivAbs \o identifier>> ELSE <<>>)
                 \o LinksOf(Tail(matches))

\* _extract_arxiv_links, lines 67-82
ExtractArxivLinks(text) ==
    IF text = <<>> THEN <<>> ELSE LinksOf(FindAll(text, 1))

\* _append_url, lines 224-233, on a record with fields urls and url_details
AppendUrlMutNoDedup(ref, u, source) ==
    IF u = <<>> THEN ref
    ELSE [ref EXCEPT !.urls = Append(@, u),
                     !.url_details = Append(@, [url |-> u, source |-> source])]

AppendUrl(ref, u, source) ==
    IF u = <<>> THEN ref
    ELSE IF u \in Range(ref.urls) THEN ref
    ELSE [ref EXCEPT !.urls = Append(@, u),
                     !.url_details = Append(@, [url |-> u, source |-> source])]

\* the loop of lines 143-144
RECURSIVE AppendAll(_, _, _)
AppendAll(ref, links, source) ==
    IF links = <<>> THEN ref
    ELSE AppendAll(AppendUrl(ref, Head(links), source), Tail(links), source)

TITLE_THRESHOLDMutAbove == 60 + 1

TITLE_THRESHOLD == 60

\* _search_crossref, lines 104-121: the value returned for a parsed response.
\* An item is [title, score, doi, url]: title is whether title[0] is non-empty,
\* score is fuzz.token_set_ratio(reference_text, title), doi and url are the
\* fields DOI and URL (<<>> when absent or empty).
RECURSIVE CrossrefCandidate(_)
CrossrefCandidate(items) ==
    IF items = <<>> THEN <<>>
    ELSE LET item == Head(items)
         IN  IF ~item.title THEN CrossrefCandidate(Tail(items))
             ELSE IF item.score < TITLE_THRESHOLD THEN CrossrefCandidate(Tail(items))
             ELSE IF item.doi # <<>> THEN DoiOrg \o item.doi
             ELSE IF item.url # <<>> THEN item.url
             ELSE CrossrefCandidate(Tail(items))

\* _search_serpapi, lines 191-199: the link returned for a parsed response, <<>>
\* when no result is accepted. A result is [title, score, link].
RECURSIVE SerpapiCandidate(_)
SerpapiCandidate(results) ==
    IF results = <<>> THEN <<>>
    ELSE LET result == Head(results)
         IN  IF ~result.title \/ result.link = <<>> THEN SerpapiCandidate(Tail(results))
             ELSE IF result.score >= TITLE_THRESHOLD THEN result.link
             ELSE SerpapiCandidate(Tail(results))

(***************************************************************************)
(* ReferenceLinker._process_reference, one frame per reference             *)
(* (the field type of a reference is carried along untouched by the linker *)
(* and is left out)                                                        *)
(***************************************************************************)
N == Len(references)

Ev(e, st, kind, val) == [e |-> e, s |-> st, kind |-> kind, val |-> val]

Found(candidate) == IF candidate = <<>> THEN <<>> ELSE <<candidate>>

\* found: the URLs the strategies of the call have returned so far
NewFrame(pc) == [pc |-> pc, attempt |-> 0, key |-> "", found |-> <<>>, log |-> <<>>]

\* the source given to _append_url: lines 144, 153, 163
ArxivSourceMutSuggested == "suggested"

ArxivSource == "research"

CrossrefSource == "suggested"

SerpapiSource == "suggested"

\* line 142
ArxivGuardMutAlways(ref) == TRUE

ArxivGuard(ref) == ref.urls = <<>>

\* lines 146-150
CrossrefGuardMutNoEnableTest(ref) == ref.urls = <<>> /\ ref.original_reference # <<>>

CrossrefGuardMutNoUrlTest(ref) == enable_search /\ ref.original_reference # <<>>

CrossrefGuard(ref) ==
    /\ ref.urls = <<>>
    /\ enable_search
    /\ ref.original_reference # <<>>

\* lines 155-160
SerpapiGuardMutNoUrlTest(ref) ==
    /\ enable_search
    /\ ref.original_reference # <<>>
    /\ serpapi_keys # <<>>

SerpapiGuard(ref) ==
    /\ ref.urls = <<>>
    /\ enable_search
    /\ ref.original_reference # <<>>
    /\ serpapi_keys # <<>>

CrossrefAttemptsMutFour == 3 + 1

\* range(3), line 93
CrossrefAttempts == 3

SerpapiAttemptsMutNoCap == Len(serpapi_keys)

\* line 171: min(len(self.serpapi_keys), 5)
SerpapiAttempts == IF Len(serpapi_keys) < 5 THEN Len(serpapi_keys) ELSE 5

\* What a search request ends with: a parsed JSON object ("ok"), a
\* requests.RequestException ("reqerror": connection failure, timeout, HTTP
\* error status), a body that is no JSON ("badjson"), or an exception that is
\* neither a RequestException nor a ValueError, as when the JSON value is no
\* object ("crash").
\* The except clauses of lines 123-131 and 201-205, in their order:
\* RequestException first, ValueError second.
Handling(kind) ==
    CASE kind = "ok"       -> "return"
      [] kind = "reqerror" -> "retry"
      [] kind = "badjson"  -> IF json_error_is_request_exception THEN "retry" ELSE "break"
      [] kind = "crash"    -> "raise"

(***************************************************************************)
(* The texts of the sample references                                      *)
(***************************************************************************)
Texts ==
    { <<>>,
      <<"x">>,
      <<"a", "r", "X", "i", "v", ":", "1", ".">>,
      <<"A", "R", "X", "I", "V", ":", " ", "1", ",", " ", "a", "r", "x", "i", "v", ":", "1">>,
      <<"a", "r", "x", "i", "v", ":", "1", " ", "a", "r", "X", "i", "v", ":", "2", ";">>,
      <<"a", "r", "X", "i", "v", ":", ".", " ", "x">>,
      <<"x", " ", "a", "r", "X", "i", "v", ":", "2", "3", "0", "1", ".", "0", "0", "0", "0", "1", " ", "y">>,
      <<"a", "r", "X", "i", "v", ":", "2", "3", "0", "1", ".", "0", "0", "0", "0", "1", ".">>,
      <<"a", "r", "X", "i", "v", ":", "a", "r", "X", "i", "v", ":", "1">> }

\* _extract_arxiv_links of each sample text, computed once
ExtractedLinks == [text \in Texts |-> ExtractArxivLinks(text)]

\* lines 139-144
Arxiv(i) ==
    /\ task[i].pc = "arxiv"
    /\ LET ref   == references[i]
           links == ExtractedLinks[ref.original_reference]
       IN  IF ArxivGuard(ref)
           THEN /\ references' = [references EXCEPT ![i] = AppendAll(ref, links, ArxivSource)]
                /\ task' = [task EXCEPT ![i].pc = "crossref",
                                        ![i].found = @ \o links,
                                        ![i].log = @ \o <<Ev("start", "arxiv", "", <<>>),
                                                          Ev("end", "arxiv", "", links)>>]
           ELSE /\ references' = references
                /\ task' = [task EXCEPT ![i].pc = "crossref"]
    /\ UNCHANGED <<confVars, serpapi_index, serpapi_lock, draws, mainVars, chkVars, aggVars>>

\* lines 146-150, the condition false
CrossrefSkip(i) ==
    /\ task[i].pc = "crossref"
    /\ task[i].attempt = 0
    /\ ~CrossrefGuard(references[i])
    /\ task' = [task EXCEPT ![i].pc = "serpapi"]
    /\ UNCHANGED <<confVars, serpapi_index, serpapi_lock, draws, references, mainVars, chkVars, aggVars>>

\* lines 151-153 with _search_crossref (lines 84-136): one pass of the retry
\* loop, and what follows it when the loop is left
CrossrefRequest(i, resp) ==
    /\ task[i].pc = "crossref"
    /\ task[i].attempt > 0 \/ CrossrefGuard(references[i])
    /\ LET t       == task[i]
           started == IF t.attempt = 0 THEN <<Ev("start", "crossref", "", <<>>)>> ELSE <<>>
           req     == Ev("request", "crossref", resp.kind, <<>>)
           how     == Handling(resp.kind)
           cand    == IF how = "return" THEN CrossrefCandidate(resp.items) ELSE <<>>
       IN  CASE how = "raise" ->
                  /\ task' = [task EXCEPT ![i].pc = "raised",
                                          ![i].log = @ \o started \o <<req>>]
                  /\ references' = references
             [] how = "retry" /\ t.attempt + 1 < CrossrefAttempts ->
                  /\ task' = [task EXCEPT ![i].attempt = @ + 1,
                                          ![i].log = @ \o started \o <<req>>]
                  /\ references' = references
             [] OTHER ->
                  /\ task' = [task EXCEPT ![i].pc = "serpapi",
                                          ![i].attempt = 0,
                                          ![i].found = @ \o Found(cand),
                                          ![i].log = @ \o started
                                              \o <<req, Ev("end", "crossref", "", Found(cand))>>]
                  /\ references' = [references EXCEPT ![i] = AppendUrl(@, cand, CrossrefSource)]
    /\ UNCHANGED <<confVars, serpapi_index, serpapi_lock, draws, mainVars, chkVars, aggVars>>

\* lines 155-160, the condition false; line 165
SerpapiSkip(i) ==
    /\ task[i].pc = "serpapi"
    /\ task[i].attempt = 0
    /\ ~SerpapiGuard(references[i])
    /\ task' = [task EXCEPT ![i].pc = "returned"]
    /\ UNCHANGED <<confVars, serpapi_index, serpapi_lock, draws, references, mainVars, chkVars, aggVars>>

\* line 212: `with self._serpapi_lock` is entered only while no thread holds the lock
LockAvailableMutNoLock == TRUE

LockAvailable == serpapi_lock = 0

\* _next_serpapi_key, lines 212-213: the lock is taken and the key read
SerpapiAcquire(i) ==
    /\ task[i].pc = "serpapi"
    /\ task[i].attempt > 0 \/ SerpapiGuard(references[i])
    /\ LockAvailable
    /\ serpapi_lock' = i
    /\ task' = [task EXCEPT ![i].pc = "serpapi_locked",
                            ![i].key = serpapi_keys[serpapi_index + 1],
                            ![i].log = @ \o (IF task[i].attempt = 0
                                             THEN <<Ev("start", "serpapi", "", <<>>)>>
                                             ELSE <<>>)]
    /\ UNCHANGED <<confVars, serpapi_index, draws, references, mainVars, chkVars, aggVars>>

\* the with block of lines 212-214 is left before line 215 returns the key:
\* the lock is released
LockOnLeavingMutKept(i) == i

LockOnLeaving(i) == 0

\* line 214, and the lock released on leaving the with block
SerpapiAdvance(i) ==
    /\ task[i].pc = "serpapi_locked"
    /\ serpapi_index' = (serpapi_index + 1) % Len(serpapi_keys)
    /\ serpapi_lock' = LockOnLeaving(i)
    /\ draws' = Append(draws, task[i].key)
    /\ task' = [task EXCEPT ![i].pc = "serpapi_request",
                            ![i].log = @ \o <<Ev("draw", "serpapi", "", <<task[i].key>>)>>]
    /\ UNCHANGED <<confVars, references, mainVars, chkVars, aggVars>>

\* lines 177-205: the request made with the key drawn, and what follows it:
\* the next pass of the loop of line 172, or lines 161-165 when it is left
SerpapiRequest(i, resp) ==
    /\ task[i].pc = "serpapi_request"
    /\ LET t    == task[i]
           req  == Ev("request", "serpapi", resp.kind, <<>>)
           how  == Handling(resp.kind)
           cand == IF how = "return" THEN SerpapiCandidate(resp.results) ELSE <<>>
       IN  CASE how = "raise" ->
                  /\ task' = [task EXCEPT ![i].pc = "raised", ![i].log = @ \o <<req>>]
                  /\ references' = references
             [] how # "raise" /\ how # "break" /\ cand = <<>>
                    /\ t.attempt + 1 < SerpapiAttempts ->
                  /\ task' = [task EXCEPT ![i].pc = "serpapi",
                                          ![i].attempt = @ + 1,
                                          ![i].log = @ \o <<req>>]
                  /\ references' = references
             [] OTHER ->
                  /\ task' = [task EXCEPT ![i].pc = "returned",
                                          ![i].attempt = 0,
                                          ![i].found = @ \o Found(cand),
                                          ![i].log = @ \o <<req, Ev("end", "serpapi", "", Found(cand))>>]
                  /\ references' = [references EXCEPT ![i] = AppendUrl(@, cand, SerpapiSource)]
    /\ UNCHANGED <<confVars, serpapi_index, serpapi_lock, draws, mainVars, chkVars, aggVars>>

(***************************************************************************)
(* Inputs of the linker                                                    *)
(***************************************************************************)
MaxKeys == 2
MaxItems == 2

U1 == HttpPrefix \o <<"a">>
U2 == HttpPrefix \o <<"b">>
U3 == HttpPrefix \o <<"c">>
D1 == <<"1", "0", ".", "1", "/", "x">>

Pdf(urls) == [k \in 1..Len(urls) |-> [url |-> urls[k], source |-> "pdf"]]

\* a reference as reference_processor.py hands it over (lines 118-145, 199-236)
Reference(text, urls) ==
    [original_reference |-> text, urls |-> urls, url_details |-> Pdf(urls)]

KeyNames == <<"k1", "k2", "k3", "k4", "k5", "k6", "k7">>

KeyLists == {SubSeq(KeyNames, 1, n) : n \in 0..MaxKeys}

InputUrls ==
    { <<>>, <<U1>>, <<U1, ArxivAbs \o <<"1">>>>, <<U1, U1>> }

ItemShapes ==
    { [title |-> FALSE, score |-> 60, doi |-> D1, url |-> U2],
      [title |-> TRUE,  score |-> 59, doi |-> D1, url |-> U2] }
    \cup [title : {TRUE}, score : {60}, doi : {<<>>, D1}, url : {<<>>}]
    \cup { [title |-> TRUE, score |-> 60,  doi |-> D1,   url |-> U2],
           [title |-> TRUE, score |-> 100, doi |-> <<>>, url |-> U2] }

CrossrefResponses ==
    {[kind |-> k, items |-> <<>>] : k \in {"reqerror", "badjson", "crash"}}
        \cup [kind : {"ok"}, items : SeqsUpTo(ItemShapes, MaxItems)]

ResultShapes ==
    { [title |-> FALSE, score |-> 60, link |-> U3],
      [title |-> TRUE,  score |-> 60, link |-> <<>>],
      [title |-> TRUE,  score |-> 59, link |-> U3],
      [title |-> TRUE,  score |-> 60, link |-> U3],
      [title |-> TRUE,  score |-> 60, link |-> U2] }

SerpapiResponses ==
    {[kind |-> k, results |-> <<>>] : k \in {"reqerror", "badjson", "crash"}}
        \cup [kind : {"ok"}, results : SeqsUpTo(ResultShapes, MaxItems)]

(***************************************************************************)
(* Direct calls of _process_reference on one reference                     *)
(***************************************************************************)
MaxCalls == 2
DefaultMaxWorkers == 5

MainIdle ==
    /\ main_pc = "idle"
    /\ enriched = <<>>
    /\ yielded = <<>>
    /\ ref_statuses = <<>>
    /\ final_references = <<>>
    /\ checks = <<>>

LinkIdle ==
    /\ enable_search = TRUE
    /\ serpapi_keys = <<>>
    /\ max_workers = DefaultMaxWorkers
    /\ serpapi_index = 0
    /\ serpapi_lock = 0
    /\ draws = <<>>
    /\ json_error_is_request_exception = TRUE
    /\ references = <<>>
    /\ input = <<>>
    /\ task = <<>>
    /\ calls = 0

\* lines 37-43, and one reference to call _process_reference on
DiscoverInit ==
    /\ enable_search \in BOOLEAN
    /\ serpapi_keys \in KeyLists
    /\ max_workers = DefaultMaxWorkers
    /\ serpapi_index = 0
    /\ serpapi_lock = 0
    /\ draws = <<>>
    /\ json_error_is_request_exception \in BOOLEAN
    /\ references \in {<<Reference(text, urls)>> : text \in Texts, urls \in InputUrls}
    /\ input = references
    /\ task = <<NewFrame("idle")>>
    /\ calls = 0

\* self._process_reference(ref), called again once the call before has ended
Call(i) ==
    /\ task[i].pc \in {"idle", "returned", "raised"}
    /\ calls < MaxCalls
    /\ calls' = calls + 1
    /\ task' = [task EXCEPT ![i] = NewFrame("arxiv")]
    /\ UNCHANGED <<enable_search, serpapi_keys, max_workers, json_error_is_request_exception,
                   input, serpapi_index, serpapi_lock, draws, references, mainVars, chkVars, aggVars>>

DiscoverNext ==
    \/ Call(1)
    \/ Arxiv(1)
    \/ CrossrefSkip(1)
    \/ \E resp \in CrossrefResponses : CrossrefRequest(1, resp)
    \/ SerpapiSkip(1)
    \/ SerpapiAcquire(1)
    \/ SerpapiAdvance(1)
    \/ \E resp \in SerpapiResponses : SerpapiRequest(1, resp)

(***************************************************************************)
(* Direct calls of _process_reference by a linker whose key pool is longer *)
(* than the 5 attempts of _search_serpapi, on a reference that has text    *)
(* and no URL                                                              *)
(***************************************************************************)
MaxPool == 6

PoolInit ==
    /\ enable_search = TRUE
    /\ serpapi_keys \in {SubSeq(KeyNames, 1, n) : n \in (MaxPool - 2)..MaxPool}
    /\ max_workers = DefaultMaxWorkers
    /\ serpapi_index = 0
    /\ serpapi_lock = 0
    /\ draws = <<>>
    /\ json_error_is_request_exception \in BOOLEAN
    /\ references = <<Reference(<<"x">>, <<>>)>>
    /\ input = references
    /\ task = <<NewFrame("idle")>>
    /\ calls = 0

\* Crossref answers every query of these calls with a list of items
PoolCrossrefResponses == [kind : {"ok"}, items : SeqsUpTo(ItemShapes, MaxItems)]

\* SerpAPI answers with a failure or with one of a few lists of results:
\* none, none that is accepted, and lists whose first result, or whose
\* second result only, is accepted
PoolSerpapiResponses ==
    {[kind |-> k, results |-> <<>>] : k \in {"reqerror", "badjson", "crash", "ok"}}
        \cup [kind : {"ok"},
              results : { <<[title |-> TRUE,  score |-> 59, link |-> U3]>>,
                          <<[title |-> TRUE,  score |-> 60, link |-> <<>>]>>,
                          <<[title |-> TRUE,  score |-> 60, link |-> U3]>>,
                          <<[title |-> TRUE,  score |-> 60, link |-> U2],
                            [title |-> TRUE,  score |-> 60, link |-> U3]>>,
                          <<[title |-> TRUE,  score |-> 59, link |-> U2],
                            [title |-> TRUE,  score |-> 60, link |-> U3]>>,
                          <<[title |-> FALSE, score |-> 60, link |-> U3],
                            [title |-> TRUE,  score |-> 60, link |-> U2]>>,
                          <<[title |-> TRUE,  score |-> 60, link |-> <<>>],
                            [title |-> TRUE,  score |-> 60, link |-> U2]>> }]

PoolNext ==
    \/ Call(1)
    \/ Arxiv(1)
    \/ CrossrefSkip(1)
    \/ \E resp \in PoolCrossrefResponses : CrossrefRequest(1, resp)
    \/ SerpapiSkip(1)
    \/ SerpapiAcquire(1)
    \/ SerpapiAdvance(1)
    \/ \E resp \in PoolSerpapiResponses : SerpapiRequest(1, resp)

(***************************************************************************)
(* ReferenceLinker.enrich (lines 45-65) followed by upload_pdf              *)
(* (main.py lines 241-279)                                                 *)
(***************************************************************************)
MaxRecords == 2
\* most keys one batch can draw: references times attempts of each
MaxDraws == 6
\* most calls of check_url one batch can make
MaxChecks == 2

\* max_workers: one thread, fewer threads than references, the default
WorkerCounts == {1, 2, DefaultMaxWorkers}

BatchReferences ==
    { Reference(<<"x">>, <<>>),
      Reference(<<"a", "r", "X", "i", "v", ":", "1", ".">>, <<>>),
      Reference(<<"x">>, <<U1>>),
      Reference(<<"x">>, <<U1, U2>>) }

\* the URLs a reference of BatchReferences can have after enrich: those it
\* has, or the one a strategy finds
RECURSIVE UrlsAhead(_)
UrlsAhead(refs) ==
    IF refs = <<>> THEN 0
    ELSE (IF Len(Head(refs).urls) > 1 THEN Len(Head(refs).urls) ELSE 1) + UrlsAhead(Tail(refs))

\* pools of the batch: none, one key, two keys, three keys
BatchKeyLists == {<<>>, <<"k1">>, <<"k1", "k2">>, <<"k1", "k2", "k3">>}

BatchCrossrefResponses ==
    { [kind |-> "crash", items |-> <<>>],
      [kind |-> "ok", items |-> <<>>],
      [kind |-> "ok", items |-> <<[title |-> TRUE, score |-> 60, doi |-> D1, url |-> <<>>]>>] }

BatchSerpapiResponses ==
    { [kind |-> "reqerror", results |-> <<>>],
      [kind |-> "crash", results |-> <<>>],
      [kind |-> "ok", results |-> <<[title |-> TRUE, score |-> 60, link |-> U3]>>] }

\* the statuses check_url returns to the loop of the batch: the most and the
\* least severe, and one between
BatchStatuses == {"Working", "Timeout", "Broken"}

\* lines 37-43 and line 49, for a list of references handed to enrich
BatchInit ==
    /\ enable_search \in BOOLEAN
    /\ serpapi_keys \in BatchKeyLists
    /\ max_workers \in WorkerCounts
    /\ serpapi_index = 0
    /\ serpapi_lock = 0
    /\ draws = <<>>
    /\ json_error_is_request_exception = TRUE   \* not read: no response of the batch is a non-JSON body
    /\ references \in SeqsUpTo(BatchReferences, MaxRecords)
    /\ Len(references) * Len(serpapi_keys) <= MaxDraws
    /\ UrlsAhead(references) <= MaxChecks
    /\ input = references
    /\ task = [i \in 1..Len(references) |-> NewFrame("unsubmitted")]
    /\ calls = 0
    /\ main_pc = "enrich"
    /\ enriched = [i \in 1..Len(references) |-> 0]
    /\ yielded = <<>>
    /\ ref_statuses = <<>>
    /\ final_references = <<>>
    /\ checks = <<>>

Running == {i \in 1..N : task[i].pc \notin {"unsubmitted", "queued", "returned", "raised"}}

Finished == {i \in 1..N : task[i].pc \in {"returned", "raised"}}

AllSubmitted == \A i \in 1..N : task[i].pc # "unsubmitted"

\* lines 52-55: executor.submit, in the order of the list
Submit(i) ==
    /\ main_pc = "enrich"
    /\ task[i].pc = "unsubmitted"
    /\ \A j \in 1..(i - 1) : task[j].pc # "unsubmitted"
    /\ task' = [task EXCEPT ![i].pc = "queued"]
    /\ UNCHANGED <<confVars, serpapi_index, serpapi_lock, draws, references, mainVars, chkVars, aggVars>>

\* ThreadPoolExecutor(max_workers=self.max_workers), line 51: the pool has at
\* most max_workers threads, each running one call at a time
PoolHasFreeThreadMutUnbounded == TRUE

PoolHasFreeThread == Cardinality(Running) < max_workers

\* line 53: one work item per entry of the list; a work item is taken from the
\* queue by one thread
DispatchableMutAgain(i) == task[i].pc \in {"queued", "returned"}

Dispatchable(i) == task[i].pc = "queued"

\* a thread of the pool (at most max_workers of them, line 51) takes the
\* oldest item of the work queue and calls _process_reference(ref)
StartTask(i) ==
    /\ Dispatchable(i)
    /\ \A j \in 1..(i - 1) : task[j].pc # "queued"
    /\ PoolHasFreeThread
    /\ task' = [task EXCEPT ![i].pc = "arxiv"]
    /\ UNCHANGED <<confVars, serpapi_index, serpapi_lock, draws, references, mainVars, chkVars, aggVars>>

\* lines 60 and 63: enriched[idx] = ...
StoreResultMutAppend(list, idx, obj) ==
    LET free == CHOOSE k \in 1..Len(list) :
                    list[k] = 0 /\ \A j \in 1..(k - 1) : list[j] # 0
    IN  [list EXCEPT ![free] = obj]

StoreResult(list, idx, obj) == [list EXCEPT ![idx] = obj]

\* lines 59-63: the exception of a future is caught
CatchesWorkerErrorMutNoTry == FALSE

CatchesWorkerError == TRUE

\* lines 57-63: as_completed yields a finished future. future.result() is the
\* dict _process_reference was given; references[idx] is the same dict.
\* The frame of the call is gone by now; how the call ended and what it found
\* are kept.
Collect(i) ==
    /\ main_pc = "enrich"
    /\ AllSubmitted
    /\ i \in Finished \ Range(yielded)
    /\ yielded' = Append(yielded, i)
    /\ task' = [task EXCEPT ![i] = [NewFrame(task[i].pc) EXCEPT !.found = task[i].found]]
    /\ IF task[i].pc = "raised" /\ ~CatchesWorkerError
       THEN /\ main_pc' = "error"
            /\ enriched' = enriched
       ELSE /\ main_pc' = main_pc
            /\ enriched' = StoreResult(enriched, i, i)
    /\ UNCHANGED <<confVars, serpapi_index, serpapi_lock, draws, references, ref_statuses,
                   final_references, checks, chkVars, aggVars>>

\* the loop of line 57 ends when as_completed has yielded every future
AllYieldedMutFirstOnly == yielded # <<>> \/ N = 0

AllYielded == Range(yielded) = 1..N

\* line 65 and main.py lines 241-247
EnrichReturn ==
    /\ main_pc = "enrich"
    /\ AllSubmitted
    /\ AllYielded
    /\ main_pc' = IF enriched = <<>> THEN "rejected" ELSE "verify"
    /\ UNCHANGED <<linkVars, enriched, yielded, ref_statuses, final_references, checks,
                   chkVars, aggVars>>

\* the reference the loop of line 249 is at
Current == enriched[Len(final_references) + 1]

\* the status field of a call of check_url that has not returned yet
Pending == "pending"

\* the calls of check_url that have not returned
InFlight == {k \in 1..Len(checks) : checks[k][3] = Pending}

\* lines 249-252: the loops run in the thread of the request handler, which
\* makes the next call of check_url when the call before has returned
MainThreadFreeMutAlways == TRUE

MainThreadFree == InFlight = {}

\* line 252: check_url is called with the next URL of the reference
CallCheckUrl ==
    /\ main_pc = "verify"
    /\ Current # 0
    /\ MainThreadFree
    /\ Len(ref_statuses) < Len(references[Current].urls)
    /\ checks' = Append(checks, <<Current, references[Current].urls[Len(ref_statuses) + 1], Pending>>)
    /\ UNCHANGED <<linkVars, main_pc, enriched, yielded, ref_statuses, final_references,
                   chkVars, aggVars>>

\* lines 251-252: the call returns one of the four statuses, which is appended
CheckUrl(st) ==
    /\ main_pc = "verify"
    /\ checks # <<>>
    /\ checks[Len(checks)][3] = Pending
    /\ ref_statuses' = Append(ref_statuses, st)
    /\ checks' = [checks EXCEPT ![Len(checks)][3] = st]
    /\ UNCHANGED <<linkVars, main_pc, enriched, yielded, final_references, chkVars, aggVars>>

\* lines 259-261
UrlDetails(ref) ==
    IF ref.url_details = <<>> /\ ref.urls # <<>>
    THEN [k \in 1..Len(ref.urls) |-> [url |-> ref.urls[k], source |-> "unknown"]]
    ELSE ref.url_details

\* lines 254-273: the entry appended to final_references; a None in the list
\* raises and the request fails (lines 287-295)
FinishReference ==
    /\ main_pc = "verify"
    /\ IF Current = 0
       THEN /\ main_pc' = "error"
            /\ UNCHANGED <<final_references, ref_statuses>>
       ELSE /\ Len(ref_statuses) = Len(references[Current].urls)
            /\ final_references' = Append(final_references,
                  [ref                |-> Current,
                   original_reference |-> references[Current].original_reference,
                   urls               |-> references[Current].urls,
                   url_details        |-> UrlDetails(references[Current]),
                   status             |-> OverallStatus(ref_statuses)])
            /\ ref_statuses' = <<>>
            /\ main_pc' = IF Len(final_references) + 1 = Len(enriched) THEN "done" ELSE "verify"
    /\ UNCHANGED <<linkVars, enriched, yielded, checks, chkVars, aggVars>>

BatchNext ==
    \/ \E i \in 1..N : Submit(i)
    \/ \E i \in 1..N : StartTask(i)
    \/ \E i \in 1..N : Arxiv(i)
    \/ \E i \in 1..N : CrossrefSkip(i)
    \/ \E i \in 1..N : \E resp \in BatchCrossrefResponses : CrossrefRequest(i, resp)
    \/ \E i \in 1..N : SerpapiSkip(i)
    \/ \E i \in 1..N : SerpapiAcquire(i)
    \/ \E i \in 1..N : SerpapiAdvance(i)
    \/ \E i \in 1..N : \E resp \in BatchSerpapiResponses : SerpapiRequest(i, resp)
    \/ \E i \in 1..N : Collect(i)
    \/ EnrichReturn
    \/ CallCheckUrl
    \/ \E st \in BatchStatuses : CheckUrl(st)
    \/ FinishReference

(***************************************************************************)
(* Specifications                                                          *)
(***************************************************************************)
InitCheck == ChkInit /\ AggIdle /\ LinkIdle /\ MainIdle

SpecCheck == InitCheck /\ [][ChkNext]_vars

InitRecheck == RecheckInit /\ AggIdle /\ LinkIdle /\ MainIdle

SpecRecheck == InitRecheck /\ [][RecheckNext]_vars

InitAgg == AggInit /\ ChkIdle /\ LinkIdle /\ MainIdle

SpecAgg == InitAgg /\ [][AggNext]_vars

InitDiscover == DiscoverInit /\ MainIdle /\ ChkIdle /\ AggIdle

SpecDiscover == InitDiscover /\ [][DiscoverNext]_vars

InitPool == PoolInit /\ MainIdle /\ ChkIdle /\ AggIdle

SpecPool == InitPool /\ [][PoolNext]_vars

InitBatch == BatchInit /\ ChkIdle /\ AggIdle

SpecBatch == InitBatch /\ [][BatchNext]_vars

\* the batch with threads that are scheduled and requests that are answered:
\* a pool thread that can take a step takes one (the operating system's
\* scheduler), every requests.get and every check_url returns or raises
\* (timeout=8, lines 98 and 187; the timeout of check_url), and the handler's
\* thread goes on. No step waits for anything but the lock and a free thread.
\* The batches are those of a linker with discovery on, a pool of two keys or
\* none, and one or two threads: fewer threads than references, as many, more.
InitBatchFair ==
    /\ InitBatch
    /\ enable_search
    /\ Len(serpapi_keys) \in {0, 2}
    /\ max_workers \in {1, 2}

SpecBatchFair == InitBatchFair /\ [][BatchNext]_vars /\ WF_vars(BatchNext)

(***************************************************************************)
(* Properties of the batch: enrich followed by the loop of upload_pdf      *)
(***************************************************************************)
\* the statuses check_url returned for the URLs of reference i, in call order
StatusesOf(i) ==
    LET mine == SelectSeq(checks, LAMBDA c : c[1] = i)
    IN  [k \in 1..Len(mine) |-> mine[k][3]]

\* urls extended by the URLs found, each once
RECURSIVE Extended(_, _)
Extended(urls, found) ==
    IF found = <<>> THEN urls
    ELSE Extended(IF Head(found) \in Range(urls) THEN urls ELSE Append(urls, Head(found)),
                  Tail(found))

\* the entry at position i is the outcome of input reference i: that
\* reference, with the URLs its own call found added to its input URLs, and
\* with the aggregate of the statuses of its own URLs
HoldsOutcomeOf(entry, i) ==
    /\ entry.ref = i
    /\ entry.original_reference = input[i].original_reference
    /\ entry.urls = Extended(input[i].urls, task[i].found)
    /\ [k \in 1..Len(entry.url_details) |-> entry.url_details[k].url] = entry.urls
    /\ Len(StatusesOf(i)) = Len(entry.urls)
    /\ entry.status = OverallStatus(StatusesOf(i))

Ended == main_pc \in {"done", "rejected", "error"}

C2_FailureIsolated ==
    (\E i \in 1..N : task[i].pc = "raised") =>
        /\ main_pc # "error"
        /\ main_pc # "rejected"
        /\ \A i \in 1..N : task[i].pc = "raised" => i \notin Running /\ serpapi_lock # i
        /\ main_pc = "enrich" =>
              \A j \in 1..N :
                  /\ (/\ task[j].pc = "queued"
                      /\ \A k \in 1..(j - 1) : task[k].pc # "queued"
                      /\ Cardinality(Running) < max_workers) => ENABLED StartTask(j)
                  /\ (/\ task[j].pc = "serpapi"
                      /\ \A k \in 1..N : task[k].pc # "serpapi_locked")
                         => ENABLED (SerpapiSkip(j) \/ SerpapiAcquire(j))
        /\ main_pc \in {"verify", "done"} => \A j \in 1..N : j \in Finished /\ enriched[j] = j
        /\ main_pc = "done" =>
              /\ Len(final_references) = N
              /\ \A j \in 1..N :
                    task[j].pc = "returned" => HoldsOutcomeOf(final_references[j], j)

C2_Witness ==
    /\ main_pc = "done"
    /\ N = 2
    /\ task[1].pc = "raised"
    /\ yielded = <<1, 2>>
    /\ task[2].pc = "returned"
    /\ final_references[2].urls = <<U3>>
    /\ final_references[2].status = "Broken"

\* C3: a reference whose call raised is reported exactly as it was on input
\* (nothing appended to urls or url_details) with the aggregate status Unknown.
C3_FailedRecordIsOriginal ==
    \A i \in 1..N :
        task[i].pc = "raised" =>
            /\ references[i] = input[i]
            /\ main_pc = "done" =>
                  /\ final_references[i].ref = i
                  /\ final_references[i].original_reference = input[i].original_reference
                  /\ final_references[i].urls = input[i].urls
                  /\ final_references[i].url_details = input[i].url_details
                  /\ final_references[i].status = "Unknown"

C3_Witness ==
    /\ main_pc = "done"
    /\ N = 2
    /\ task[2].pc = "raised"
    /\ task[1].pc = "returned"
    /\ final_references[1].urls = <<U1>>
    /\ final_references[1].status = "Working"
    /\ final_references[2].status = "Unknown"
    /\ final_references[2].urls = <<>>

(***************************************************************************)
(* Properties of _process_reference (discover)                             *)
(***************************************************************************)
Rank(st) ==
    CASE st = "arxiv"    -> 1
      [] st = "crossref" -> 2
      [] st = "serpapi"  -> 3

StartsOf(log) == SelectSeq(log, LAMBDA ev : ev.e = "start")

\* C4: on a reference that has URLs on input, _process_reference changes
\* neither urls nor url_details and runs no strategy: no extraction, no
\* metadata-search or web-search request, no credential drawn; a second call
\* leaves the reference as the first did.
C4_NoOpOnExistingUrls ==
    \A i \in 1..N :
        input[i].urls # <<>> =>
            /\ references[i] = input[i]
            /\ task[i].log = <<>>
            /\ task[i].pc \in {"idle", "arxiv", "crossref", "serpapi", "returned"}
            /\ serpapi_index = 0
            /\ serpapi_lock = 0

C4_Witness ==
    /\ calls = 2
    /\ task[1].pc = "returned"
    /\ input[1].urls = <<U1>>
    /\ ExtractArxivLinks(input[1].original_reference) # <<>>
    /\ enable_search
    /\ serpapi_keys # <<>>

\* C5: within one call the strategies start in the order identifier
\* extraction, metadata search, web search, each at most once; a strategy
\* starts only after every strategy started before it has ended without a URL;
\* and nothing of an earlier strategy (request, credential draw, end) happens
\* after a later strategy has started.
C5_StrategyOrder ==
    \A i \in 1..N :
        LET log == task[i].log
        IN  /\ \A a, b \in 1..Len(log) :
                  a < b =>
                      /\ Rank(log[a].s) <= Rank(log[b].s)
                      /\ log[b].e = "start" =>
                            /\ Rank(log[a].s) < Rank(log[b].s)
                            /\ log[a].e = "end" => log[a].val = <<>>
            /\ \A b \in 1..Len(log) :
                  /\ log[b].e = "start" /\ b > 1 => log[b - 1].e = "end"
                  /\ log[b].e # "start" =>
                        \E a \in 1..(b - 1) : log[a].e = "start" /\ log[a].s = log[b].s
            /\ log # <<>> => log[1] = Ev("start", "arxiv", "", <<>>)
            /\ (input[i].urls = <<>> /\ calls = 1
                    /\ task[i].pc \notin {"idle", "unsubmitted", "queued", "arxiv"})
               => log # <<>>

C5_Witness ==
    /\ task[1].pc = "returned"
    /\ LET log == task[1].log
       IN  /\ [k \in 1..Len(StartsOf(log)) |-> StartsOf(log)[k].s]
                  = <<"arxiv", "crossref", "serpapi">>
           /\ Len(SelectSeq(log, LAMBDA ev : ev.e = "request" /\ ev.s = "crossref")) = 3
           /\ Len(SelectSeq(log, LAMBDA ev : ev.e = "request" /\ ev.s = "serpapi")) = 2
           /\ log[Len(log)].val = <<U3>>

(***************************************************************************)
(* Properties of the status aggregation                                    *)
(***************************************************************************)
\* The severity order the aggregation is specified with, most severe highest
Severity(s) ==
    CASE s = "Broken"      -> 4
      [] s = "Timeout"     -> 3
      [] s = "Not Working" -> 2
      [] s = "Working"     -> 1

Reordered(ss, p) == [i \in 1..Len(ss) |-> ss[p[i]]]

\* C6: the aggregate status of a reference is the most severe of its per-URL
\* statuses under Broken > Timeout > Not Working > Working, it is the same for
\* every order of the URLs, and it is Unknown exactly when there is no URL.
C6_AggregateIsMostSevere ==
    agg_pc = "done" =>
        /\ (overall_status = "Unknown") <=> (statuses = <<>>)
        /\ statuses # <<>> =>
              /\ overall_status \in Range(statuses)
              /\ \A s \in Range(statuses) : Severity(s) <= Severity(overall_status)
        /\ \A p \in Permutations(1..Len(statuses)) :
              OverallStatus(Reordered(statuses, p)) = overall_status

C6_Witness ==
    /\ agg_pc = "done"
    /\ statuses = <<"Working", "Broken", "Not Working">>
    /\ overall_status = "Broken"

(***************************************************************************)
(* Properties of check_url                                                 *)
(***************************************************************************)
Outcomes == {probes[i].outcome.kind : i \in 1..Len(probes)}

Methods == [i \in 1..Len(probes) |-> probes[i].method]

\* the classification the verifier is specified with
Reachability(c) ==
    IF c \in {401, 403, 405, 429} \/ (200 <= c /\ c <= 399) THEN "Working"
    ELSE IF 400 <= c /\ c <= 499 THEN "Broken"
    ELSE "Not Working"

\* C7: with no timeout and no local error, check_url classifies the final
\* numeric status code (the GET's when the fallback ran, else the HEAD's):
\* 401, 403, 405, 429 and 2xx/3xx are Working, other 4xx Broken, the rest
\* Not Working.
C7_ClassifiesFinalCode ==
    (/\ cu_pc = "done"
     /\ probes # <<>>
     /\ Outcomes \cap {"timeout", "error"} = {}
     /\ probes[Len(probes)].outcome.kind = "code")
    => cu_result = Reachability(probes[Len(probes)].outcome.code)

C7_Witness ==
    /\ cu_pc = "done"
    /\ Methods = <<"head", "get">>
    /\ probes[1].outcome = [kind |-> "code", code |-> 404]
    /\ probes[2].outcome = [kind |-> "code", code |-> 401]
    /\ cu_result = "Working"

C9_TimeoutShortCircuits ==
    /\ (cu_pc = "done" /\ "timeout" \in Outcomes) => cu_result = "Timeout"
    /\ (probes # <<>> /\ probes[1].outcome.kind = "timeout") =>
          /\ Methods = <<"head">>
          /\ cu_pc = "done"

C9_Witness ==
    /\ cu_pc = "done"
    /\ Methods = <<"head">>
    /\ probes[1].outcome.kind = "timeout"
    /\ cu_result = "Timeout"

HeadAsksForFallback ==
    /\ probes # <<>>
    /\ \/ probes[1].outcome.kind = "reqerror"
       \/ probes[1].outcome.kind = "code" /\ probes[1].outcome.code >= 400

\* C10: the GET is issued if and only if the HEAD failed with a non-timeout
\* request error or returned a code >= 400; a HEAD answer in 2xx/3xx gives
\* Working with no GET; HEAD 404 then GET 404 gives Broken.
C10_FallbackIff ==
    /\ Len(probes) <= 2
    /\ Len(probes) >= 1 => probes[1].method = "head"
    /\ Len(probes) = 2 => probes[2].method = "get" /\ HeadAsksForFallback
    /\ (cu_pc \in {"classify", "done"} /\ HeadAsksForFallback) => Len(probes) = 2
    /\ (/\ cu_pc = "done"
        /\ probes # <<>>
        /\ probes[1].outcome.kind = "code"
        /\ 200 <= probes[1].outcome.code /\ probes[1].outcome.code <= 399)
       => /\ cu_result = "Working"
          /\ Len(probes) = 1
    /\ (/\ cu_pc = "done"
        /\ Len(probes) = 2
        /\ probes[1].outcome = [kind |-> "code", code |-> 404]
        /\ probes[2].outcome = [kind |-> "code", code |-> 404])
       => cu_result = "Broken"

C10_Witness ==
    /\ cu_pc = "done"
    /\ Methods = <<"head", "get">>
    /\ probes[1].outcome = [kind |-> "code", code |-> 404]
    /\ probes[2].outcome = [kind |-> "code", code |-> 404]
    /\ cu_result = "Broken"

(***************************************************************************)
(* Properties of the key pool (_next_serpapi_key)                          *)
(***************************************************************************)
\* the keys a call has drawn, from its log
DrawsOf(log) ==
    LET ds == SelectSeq(log, LAMBDA ev : ev.e = "draw")
    IN  [k \in 1..Len(ds) |-> ds[k].val[1]]

\* C11: the keys handed out, in the order in which the draws pass through the
\* locked section, follow the pool cyclically from its first key: draw k
\* returns key ((k-1) mod n)+1 of a pool of n keys, for draws of one worker
\* and for draws interleaved across workers alike; the cursor stays in 0..n-1.
C11_RoundRobin ==
    /\ serpapi_index \in 0..(IF serpapi_keys = <<>> THEN 0 ELSE Len(serpapi_keys) - 1)
    /\ \A k \in 1..Len(draws) :
          draws[k] = serpapi_keys[((k - 1) % Len(serpapi_keys)) + 1]
    /\ serpapi_keys # <<>> /\ serpapi_lock = 0 =>
          serpapi_index = Len(draws) % Len(serpapi_keys)

\* pool [k1,k2,k3], five draws k1,k2,k3,k1,k2, taken in turn by two workers
C11_Witness ==
    /\ serpapi_keys = <<"k1", "k2", "k3">>
    /\ draws = <<"k1", "k2", "k3", "k1", "k2">>
    /\ N = 2
    /\ DrawsOf(task[1].log) = <<"k1", "k3", "k2">>
    /\ DrawsOf(task[2].log) = <<"k2", "k1">>

(***************************************************************************)
(* Properties of the worker pool of enrich                                 *)
(***************************************************************************)
\* C12: at every moment of a batch the number of references whose
\* _process_reference call is in progress is at most max_workers (5 by
\* default), however many references the list has.
C12_BoundedConcurrency ==
    /\ Cardinality(Running) <= max_workers
    /\ DefaultMaxWorkers = 5

\* more references than threads: one call in progress, the other one waiting
C12_Witness ==
    /\ N = 2
    /\ max_workers = 1
    /\ task[1].pc = "crossref"
    /\ task[2].pc = "queued"
    /\ Cardinality(Running) = max_workers

\* C13: enrich returns only after every worker has finished: once it has
\* returned no call is in progress or waiting and every position of the list
\* holds a reference; before that the caller has seen nothing of the result
\* (no URL checked, no entry reported).
C13_ReturnsAfterAllWorkers ==
    /\ main_pc \in {"verify", "done", "rejected"} =>
          /\ Running = {}
          /\ \A i \in 1..N : task[i].pc \in {"returned", "raised"}
          /\ Len(enriched) = N
          /\ \A i \in 1..N : enriched[i] # 0
    /\ main_pc = "enrich" => final_references = <<>> /\ checks = <<>> /\ ref_statuses = <<>>

\* enrich has just returned a list of two references, the later one finished first
C13_Witness ==
    /\ main_pc = "verify"
    /\ N = 2
    /\ yielded = <<2, 1>>
    /\ enriched = <<1, 2>>
    /\ final_references = <<>>
    /\ checks = <<>>
    /\ task[1].pc = "returned"
    /\ task[2].pc = "raised"

(***************************************************************************)
(* Properties of the URL list of a reference                               *)
(***************************************************************************)
NoDuplicate(s) == \A a, b \in 1..Len(s) : a # b => s[a] # s[b]

Parallel(ref) ==
    /\ Len(ref.url_details) = Len(ref.urls)
    /\ \A k \in 1..Len(ref.urls) : ref.url_details[k].url = ref.urls[k]

\* the links of the "end" events of a log, in order
RECURSIVE FoundIn(_)
FoundIn(log) ==
    IF log = <<>> THEN <<>>
    ELSE (IF Head(log).e = "end" THEN Head(log).val ELSE <<>>) \o FoundIn(Tail(log))

\* C14: when the urls of a reference were free of duplicates and parallel to
\* url_details on input, they are so during and after _process_reference: a
\* URL that is on the reference already is not appended again, even when a
\* strategy finds it again.
C14_UrlsStayUnique ==
    (NoDuplicate(input[1].urls) /\ Parallel(input[1])) =>
        /\ NoDuplicate(references[1].urls)
        /\ Parallel(references[1])
        /\ \A k \in 1..Len(input[1].urls) : references[1].urls[k] = input[1].urls[k]

\* the text names the same identifier twice: two equal links found, one appended
C14_Witness ==
    /\ task[1].pc = "returned"
    /\ input[1].urls = <<>>
    /\ FoundIn(task[1].log) = <<ArxivAbs \o <<"1">>, ArxivAbs \o <<"1">>>>
    /\ references[1].urls = <<ArxivAbs \o <<"1">>>>
    /\ references[1].url_details = <<[url |-> ArxivAbs \o <<"1">>, source |-> "research"]>>

\* the tag of the strategy a call is in: "research" (the code's name of the
\* research-identifier tag) for the arXiv extraction, "suggested" for the
\* Crossref search and for the SerpAPI search
TagOf(pc) ==
    CASE pc = "arxiv"           -> "research"
      [] pc = "crossref"        -> "suggested"
      [] pc = "serpapi_request" -> "suggested"
      [] OTHER                  -> "none"

\* C15: every entry _process_reference appends to url_details carries the tag
\* of the strategy that produced its URL, and the entries that were there
\* before, those of the input among them, are not changed.
C15_ProvenanceTags ==
    [][ LET old == references[1].url_details
            new == references'[1].url_details
        IN  /\ Len(new) >= Len(old)
            /\ SubSeq(new, 1, Len(old)) = old
            /\ \A k \in (Len(old) + 1)..Len(new) :
                  /\ new[k].source = TagOf(task[1].pc)
                  /\ new[k].url = references'[1].urls[k]
                  /\ new[k].url \in Range(task'[1].found) ]_vars

\* two identifiers in the text: two entries tagged research
C15_Witness ==
    /\ task[1].pc = "returned"
    /\ input[1].urls = <<>>
    /\ references[1].url_details =
          <<[url |-> ArxivAbs \o <<"1">>, source |-> "research"],
            [url |-> ArxivAbs \o <<"2">>, source |-> "research"]>>

\* a link of the web search: one entry tagged suggested
C15_WitnessSuggested ==
    /\ task[1].pc = "returned"
    /\ references[1].url_details = <<[url |-> U3, source |-> "suggested"]>>

(***************************************************************************)
(* Further properties of check_url                                         *)
(***************************************************************************)
\* C16: check_url never raises: whatever the argument and whatever the
\* transport does, the call goes on until it returns, and it returns exactly
\* one of Working, Not Working, Timeout, Broken; a local error that cannot be
\* recovered from (an argument that is no string, an exception of the
\* transport that is no RequestException, a URL that is malformed after
\* normalization) gives Broken.
C16_NeverRaises ==
    /\ cu_pc \in {"normalize", "head", "fallback", "classify", "done"}
    /\ cu_pc = "done" => cu_result \in UrlStatus
    /\ cu_pc # "done" => cu_result = NoResult /\ ENABLED ChkNext
    /\ cu_pc = "done" /\ ~url.isstr => cu_result = "Broken" /\ probes = <<>>
    /\ cu_pc = "done" /\ probes # <<>> /\ probes[Len(probes)].outcome.kind = "error" =>
          cu_result = "Broken"
    /\ cu_pc = "done" /\ url.isstr /\ Malformed(url.s) => cu_result = "Broken"

\* the empty string is normalized to "https://", which has no host
C16_Witness ==
    /\ cu_pc = "done"
    /\ url = [isstr |-> TRUE, s |-> HttpsPrefix]
    /\ Len(probes) = 2
    /\ probes[1].outcome.kind = "reqerror"
    /\ probes[2].outcome.kind = "reqerror"
    /\ cu_result = "Broken"

MarkerOccursAt(t, p) ==
    /\ p + 5 <= Len(t)
    /\ [k \in 1..6 |-> Lower(t[p + k - 1])] = <<"a", "r", "x", "i", "v", ":">>

\* where the identifier after the marker at p begins (after optional blanks)
IdBegin(t, p) ==
    CHOOSE q \in (p + 6)..(Len(t) + 1) :
        /\ q = Len(t) + 1 \/ ~IsSpace(t[q])
        /\ \A r \in (p + 6)..(q - 1) : IsSpace(t[r])

\* the first position after that identifier
IdStop(t, p) ==
    CHOOSE q \in IdBegin(t, p)..(Len(t) + 1) :
        /\ q = Len(t) + 1 \/ ~IsIdChar(t[q])
        /\ \A r \in IdBegin(t, p)..(q - 1) : IsIdChar(t[r])

IdAt(t, p) == SubSeq(t, IdBegin(t, p), IdStop(t, p) - 1)

\* the identifier without its trailing punctuation
WithoutTrailing(id) ==
    LET n == CHOOSE k \in 0..Len(id) :
                 /\ k = 0 \/ id[k] \notin {".", ",", ";", ":"}
                 /\ \A r \in (k + 1)..Len(id) : id[r] \in {".", ",", ";", ":"}
    IN  SubSeq(id, 1, n)

\* one link for each occurrence, from position p on, of the marker followed by
\* an identifier that is not empty after stripping, in order of occurrence
RECURSIVE LinksFrom(_, _)
LinksFrom(t, p) ==
    IF p > Len(t) THEN <<>>
    ELSE (IF MarkerOccursAt(t, p) /\ WithoutTrailing(IdAt(t, p)) # <<>>
          THEN <<ArxivAbs \o WithoutTrailing(IdAt(t, p))>>
          ELSE <<>>) \o LinksFrom(t, p + 1)

\* the links _extract_arxiv_links returned in the call in progress
ArxivLinks(log) ==
    LET ends == SelectSeq(log, LAMBDA ev : ev.e = "end" /\ ev.s = "arxiv")
    IN  ends[1].val

ArxivRan(log) == \E k \in 1..Len(log) : log[k].e = "end" /\ log[k].s = "arxiv"

\* C18 as claimed: the extraction yields, for each occurrence in the text of
\* the marker arXiv: (in any case) followed by an identifier, the URL
\* https://arxiv.org/abs/<identifier> with the trailing punctuation . , ; :
\* removed, in order of occurrence, and no URL for an identifier that is empty
\* after stripping.
C18_EachOccurrenceYieldsLink ==
    ArxivRan(task[1].log) =>
        ArxivLinks(task[1].log) = LinksFrom(input[1].original_reference, 1)

\* "arXiv:arXiv:1": the second marker is taken for the identifier of the first
C18_Witness ==
    /\ input[1].original_reference =
          <<"a", "r", "X", "i", "v", ":", "a", "r", "X", "i", "v", ":", "1">>
    /\ ArxivRan(task[1].log)
    /\ ArxivLinks(task[1].log) = <<ArxivAbs \o <<"a", "r", "X", "i", "v">>>>
    /\ references[1].urls = <<ArxivAbs \o <<"a", "r", "X", "i", "v">>>>

(***************************************************************************)
(* Properties of the lock of the key pool                                  *)
(***************************************************************************)
\* C19: the lock of the key pool is held only while the index is read and
\* advanced: no worker holds it while a request of that worker is in flight
\* (or at any other place outside _next_serpapi_key), so a worker that wants
\* to draw a key while requests of other workers are pending can draw it.
C19_LockOnlyAroundCursor ==
    /\ serpapi_lock \in 0..N
    /\ \A i \in 1..N : serpapi_lock = i <=> task[i].pc = "serpapi_locked"
    /\ \A i \in 1..N : task[i].pc \in {"crossref", "serpapi_request"} => serpapi_lock # i
    /\ \A j \in 1..N :
          (/\ task[j].pc = "serpapi"
           /\ task[j].attempt > 0 \/ SerpapiGuard(references[j])
           /\ \A i \in 1..N : task[i].pc # "serpapi_locked")
              => ENABLED SerpapiAcquire(j)

\* two web-search requests in flight at once, each with its own key, the lock free
C19_Witness ==
    /\ N = 2
    /\ task[1].pc = "serpapi_request"
    /\ task[2].pc = "serpapi_request"
    /\ task[1].key = "k2"
    /\ task[2].key = "k1"
    /\ serpapi_lock = 0

(***************************************************************************)
(* Properties of _search_crossref                                          *)
(***************************************************************************)
\* the results of the Crossref requests of the call in progress, in order
CrossrefRequests(log) ==
    LET reqs == SelectSeq(log, LAMBDA ev : ev.e = "request" /\ ev.s = "crossref")
    IN  [k \in 1..Len(reqs) |-> reqs[k].kind]

CrossrefEnded(log) == \E k \in 1..Len(log) : log[k].e = "end" /\ log[k].s = "crossref"

\* C20 as claimed: one invocation of the Crossref search issues at most 3
\* requests; a further request is issued only after the one before failed
\* with a network failure (a RequestException of the transport or of
\* raise_for_status); a parsed response ends the strategy at once, with no
\* candidate when none is accepted.
C20_RetryOnlyAfterNetworkFailure ==
    LET reqs == CrossrefRequests(task[1].log)
    IN  /\ Len(reqs) <= 3
        /\ \A k \in 2..Len(reqs) : reqs[k - 1] = "reqerror"
        /\ \A k \in 1..Len(reqs) :
              reqs[k] = "ok" => k = Len(reqs) /\ CrossrefEnded(task[1].log)

\* a body that is no JSON, and then a second request
C20_Witness ==
    /\ json_error_is_request_exception
    /\ CrossrefRequests(task[1].log) = <<"badjson", "ok">>
    /\ CrossrefEnded(task[1].log)

(***************************************************************************)
(* Properties of the two remote searches                                   *)
(***************************************************************************)
SerpapiStarted(log) == \E k \in 1..Len(log) : log[k].e = "start" /\ log[k].s = "serpapi"

EndOf(log, st) == SelectSeq(log, LAMBDA ev : ev.e = "end" /\ ev.s = st)

\* C21: when all three Crossref attempts of a call fail with a network
\* failure, the strategy has ended with no candidate and nothing is raised to
\* the caller by it, the reference is as it was before the strategy, and the
\* call goes on to the SerpAPI search exactly when a key is configured
\* (enable_search is on, or Crossref would not have run).
C21_NetworkFailuresEndQuietly ==
    \A i \in 1..N :
        LET log == task[i].log
            all == CrossrefRequests(log)
        IN  (Len(all) >= 3 /\ \A k \in 1..3 : all[k] = "reqerror") =>
                /\ Len(all) = 3
                /\ EndOf(log, "crossref") = <<Ev("end", "crossref", "", <<>>)>>
                /\ task[i].pc = "raised" => SerpapiStarted(log)
                /\ ~SerpapiStarted(log) => references[i] = input[i]
                /\ serpapi_keys # <<>> =>
                      \/ SerpapiStarted(log)
                      \/ task[i].pc = "serpapi" /\ ENABLED SerpapiAcquire(i)
                /\ serpapi_keys = <<>> =>
                      /\ ~SerpapiStarted(log)
                      /\ task[i].pc \in {"serpapi", "returned"}
                      /\ task[i].pc = "serpapi" => ENABLED SerpapiSkip(i)

C21_Witness ==
    /\ CrossrefRequests(task[1].log) = <<"reqerror", "reqerror", "reqerror">>
    /\ serpapi_keys # <<>>
    /\ task[1].pc = "serpapi_request"
    /\ references[1].urls = <<>>

C21_WitnessNoKey ==
    /\ CrossrefRequests(task[1].log) = <<"reqerror", "reqerror", "reqerror">>
    /\ serpapi_keys = <<>>
    /\ task[1].pc = "returned"
    /\ references[1].urls = <<>>

\* C22 as claimed: a Crossref response whose body is no JSON ends the
\* strategy at once with no candidate: it is the last request of the
\* invocation, whatever the number of attempts used, the strategy has ended
\* without a URL, and the call has not raised.
C22_MalformedEndsAtOnce ==
    \A i \in 1..N :
        LET log == task[i].log
            all == CrossrefRequests(log)
        IN  \A k \in 1..Len(all) :
                all[k] = "badjson" =>
                    /\ k = Len(all)
                    /\ EndOf(log, "crossref") = <<Ev("end", "crossref", "", <<>>)>>
                    /\ task[i].pc = "raised" => SerpapiStarted(log)

\* three bodies that are no JSON, each answered by a further attempt
C22_Witness ==
    /\ json_error_is_request_exception
    /\ CrossrefRequests(task[1].log) = <<"badjson", "badjson", "badjson">>
    /\ CrossrefEnded(task[1].log)

\* what one invocation of _search_serpapi has done so far: its key draws and
\* requests in order, and the kinds of its responses
SerpapiEvents(log) ==
    SelectSeq(log, LAMBDA ev : ev.s = "serpapi" /\ ev.e \in {"draw", "request"})

SerpapiRequests(log) ==
    LET reqs == SelectSeq(log, LAMBDA ev : ev.e = "request" /\ ev.s = "serpapi")
    IN  [k \in 1..Len(reqs) |-> reqs[k].kind]

\* the positions of the results that carry a title meeting the threshold and a link
Matches(results) ==
    {k \in 1..Len(results) :
        results[k].title /\ results[k].link # <<>> /\ results[k].score >= 60}

FirstMatch(results) ==
    IF Matches(results) = {} THEN <<>>
    ELSE results[CHOOSE k \in Matches(results) : \A m \in Matches(results) : k <= m].link

PoolCap == IF Len(serpapi_keys) <= 5 THEN Len(serpapi_keys) ELSE 5

C23_Counts ==
    LET log  == task[1].log
        evs  == SerpapiEvents(log)
        reqs == SerpapiRequests(log)
    IN  /\ Len(reqs) <= PoolCap
        /\ \A k \in 1..Len(evs) : evs[k].e = (IF k % 2 = 1 THEN "draw" ELSE "request")
        /\ Len(evs) % 2 = 1 <=> task[1].pc = "serpapi_request"
        /\ \A k \in 1..Len(log) : (log[k].e = "end" /\ log[k].s = "serpapi") => k = Len(log)
        /\ (Len(reqs) = PoolCap /\ \A k \in 1..Len(reqs) : reqs[k] # "crash"
                /\ EndOf(log, "serpapi") # <<>> /\ EndOf(log, "serpapi")[1].val = <<>>) =>
              /\ task[1].pc = "returned"
              /\ references[1].urls = <<>>
        /\ (Len(reqs) = PoolCap /\ task[1].pc # "serpapi_request") =>
              /\ EndOf(log, "serpapi") # <<>> \/ task[1].pc = "raised"
              /\ task[1].pc = "raised" => reqs[Len(reqs)] = "crash"

C23_Step ==
    \A resp \in PoolSerpapiResponses :
        (/\ task[1].pc = "serpapi_request"
         /\ resp.kind = "ok"
         /\ FirstMatch(resp.results) # <<>>
         /\ SerpapiRequest(1, resp)) =>
            /\ task'[1].pc = "returned"
            /\ references'[1].urls = <<FirstMatch(resp.results)>>
            /\ EndOf(task'[1].log, "serpapi")
                  = <<Ev("end", "serpapi", "", <<FirstMatch(resp.results)>>)>>
            /\ draws' = draws

\* C23: one invocation of _search_serpapi issues at most min(len(keys), 5)
\* requests, each preceded by exactly one draw of a key; a response with a
\* result whose title meets the threshold (and that has a link) ends the
\* invocation at once with the link of the first such result, no further key
\* drawn and no further request issued; when all attempts are used up without
\* a match the invocation returns no candidate and does not raise.
C23_BoundedSearch == []C23_Counts /\ [][C23_Step]_vars

\* a pool of 6 keys: 5 requests, none with a match, and the call has returned
C23_Witness ==
    /\ Len(serpapi_keys) = 6
    /\ Len(SerpapiRequests(task[1].log)) = 5
    /\ task[1].pc = "returned"
    /\ references[1].urls = <<>>
    /\ draws = SubSeq(serpapi_keys, 1, 5)

\* a pool of 6 keys: the first response has a match, one key drawn
C23_WitnessMatch ==
    /\ Len(serpapi_keys) = 6
    /\ SerpapiRequests(task[1].log) = <<"ok">>
    /\ task[1].pc = "returned"
    /\ references[1].urls = <<U3>>
    /\ draws = <<"k1">>

\* C24 as claimed: within one invocation of _search_serpapi a further key is
\* drawn and a further request issued only after the request before failed
\* with a request-level error; a parsed response that has no result meeting
\* the threshold is the last request of the invocation and ends it.
C24_NextKeyOnlyAfterRequestError ==
    \A i \in 1..N :
        LET log  == task[i].log
            evs  == SerpapiEvents(log)
            reqs == SerpapiRequests(log)
        IN  /\ \A k \in 2..Len(reqs) : reqs[k - 1] = "reqerror"
            /\ \A k \in 1..Len(reqs) :
                  reqs[k] = "ok" =>
                      /\ Len(evs) = 2 * k
                      /\ EndOf(log, "serpapi") # <<>>

\* a parsed response without an accepted result, and then the next key drawn
\* and a second request issued, with a requests that raises a plain ValueError
C24_Witness ==
    /\ ~json_error_is_request_exception
    /\ SerpapiRequests(task[1].log) = <<"ok", "ok">>
    /\ draws = <<"k1", "k2">>
    /\ task[1].pc = "returned"
    /\ references[1].urls = <<>>

RemoteEvents(log) == SelectSeq(log, LAMBDA ev : ev.s \in {"crossref", "serpapi"})

\* C25: with enable_search off a call issues no Crossref and no SerpAPI
\* request and draws no key, while the arXiv extraction is applied as ever;
\* with enable_search on and no key configured a call issues no SerpAPI
\* request and draws no key, and returns all the same: it raises only when
\* the Crossref search did.
C25_DisabledOrNoKeys ==
    \A i \in 1..N :
        LET log == task[i].log
        IN  /\ ~enable_search =>
                  /\ RemoteEvents(log) = <<>>
                  /\ draws = <<>>
                  /\ serpapi_index = 0
                  /\ task[i].pc # "raised"
                  /\ (input[i].urls = <<>> /\ task[i].pc \notin {"idle", "arxiv"}) =>
                        /\ references[i].urls
                              = Extended(<<>>, ExtractArxivLinks(input[i].original_reference))
                        /\ \A k \in 1..Len(references[i].url_details) :
                              references[i].url_details[k].source = "research"
            /\ (enable_search /\ serpapi_keys = <<>>) =>
                  /\ ~SerpapiStarted(log)
                  /\ draws = <<>>
                  /\ serpapi_index = 0
                  /\ task[i].pc = "raised" =>
                        log[Len(log)] = Ev("request", "crossref", "crash", <<>>)
                  /\ task[i].pc = "serpapi" => ENABLED SerpapiSkip(i)

\* discovery off: the call has returned with the link of the arXiv identifier
C25_Witness ==
    /\ ~enable_search
    /\ serpapi_keys # <<>>
    /\ task[1].pc = "returned"
    /\ input[1].urls = <<>>
    /\ references[1].urls = <<ArxivAbs \o <<"1">>, ArxivAbs \o <<"2">>>>

\* discovery on, no key: the call has returned after a Crossref search without a candidate
C25_WitnessNoKey ==
    /\ enable_search
    /\ serpapi_keys = <<>>
    /\ task[1].pc = "returned"
    /\ CrossrefRequests(task[1].log) = <<"ok">>
    /\ references[1].urls = <<>>

\* the positions of the items that have a title and score at least 60
Titled(items) ==
    {k \in 1..Len(items) : items[k].title /\ items[k].score >= 60}

\* of those, the positions of the items that have a DOI or a URL
Usable(items) ==
    {k \in Titled(items) : items[k].doi # <<>> \/ items[k].url # <<>>}

Least(S) == CHOOSE k \in S : \A m \in S : k <= m

UrlOf(item) == IF item.doi # <<>> THEN DoiOrg \o item.doi ELSE item.url

\* what a call has after a Crossref request answered by resp, when the search
\* is to return the URL u (<<>> for none)
CrossrefGives(resp, u) ==
    (task[1].pc = "crossref" /\ CrossrefRequest(1, resp)) =>
        /\ EndOf(task'[1].log, "crossref") = <<Ev("end", "crossref", "", Found(u))>>
        /\ references'[1].urls = Found(u)
        /\ task'[1].pc = "serpapi"

\* C26 as claimed: the Crossref search returns the URL of the first item, in
\* response order, that has a title and scores at least 60: the doi.org URL
\* of its DOI when it has one, otherwise its URL field.
C26_FirstTitledCandidate ==
    [][\A resp \in PoolCrossrefResponses :
          CrossrefGives(resp, IF Titled(resp.items) = {} THEN <<>>
                              ELSE UrlOf(resp.items[Least(Titled(resp.items))]))]_vars

\* C26 amended: the Crossref search returns the URL of the first item, in
\* response order, that has a title, scores at least 60 and has a DOI or a
\* URL: the doi.org URL of its DOI when it has one, otherwise its URL field.
\* An item scoring 60 is accepted, one scoring 59 is not; items without a
\* title, and items with neither DOI nor URL, are passed over.
C26_FirstUsableCandidate ==
    [][\A resp \in PoolCrossrefResponses :
          CrossrefGives(resp, IF Usable(resp.items) = {} THEN <<>>
                              ELSE UrlOf(resp.items[Least(Usable(resp.items))]))]_vars

\* the search has returned a doi.org URL, or the URL of an item without a DOI
C26_Witness ==
    /\ task[1].pc = "serpapi"
    /\ CrossrefRequests(task[1].log) = <<"ok">>
    /\ references[1].urls = <<DoiOrg \o D1>>

C26_WitnessUrl ==
    /\ task[1].pc = "serpapi"
    /\ CrossrefRequests(task[1].log) = <<"ok">>
    /\ references[1].urls = <<U2>>

(***************************************************************************)
(* Properties of the verification loop                                     *)
(***************************************************************************)
\* the calls of check_url made for reference i, in call order
ChecksOf(i) == SelectSeq(checks, LAMBDA c : c[1] = i)

Verified(i) == \E k \in 1..Len(final_references) : final_references[k].ref = i

\* C27: for every reference, no URL of it is checked before its
\* _process_reference has ended (and enrich has returned); the URLs checked
\* are the entries of its urls list as discovery left it (those of the input
\* followed by those found), each entry once and in list order; and a call of
\* check_url begins only when the call before it has returned.
C27_CheckedOnceInOrder ==
    /\ InFlight \subseteq {Len(checks)}
    /\ main_pc = "done" => \A i \in 1..N : Verified(i)
    /\ \A i \in 1..N :
          LET mine == ChecksOf(i)
              urls == references[i].urls
          IN  /\ mine # <<>> =>
                    /\ task[i].pc \in {"returned", "raised"}
                    /\ i \in Range(yielded)
                    /\ main_pc # "enrich"
                    /\ urls = Extended(input[i].urls, task[i].found)
              /\ Len(mine) <= Len(urls)
              /\ \A k \in 1..Len(mine) : mine[k][2] = urls[k]
              /\ Verified(i) =>
                    /\ Len(mine) = Len(urls)
                    /\ \A k \in 1..Len(mine) : mine[k][3] \in UrlStatus

\* a reference with two URLs: both checked, in the order of the list
C27_Witness ==
    /\ main_pc = "done"
    /\ references[1].urls = <<U1, U2>>
    /\ checks = <<<<1, U1, "Broken">>, <<1, U2, "Working">>>>

\* the URL found by the Crossref search of the second reference is checked
C27_WitnessDiscovered ==
    /\ main_pc = "done"
    /\ N = 2
    /\ input[2].urls = <<>>
    /\ ChecksOf(2) = <<<<2, DoiOrg \o D1, "Timeout">>>>

\* reference j has a URL that no call of check_url has been made for
Unchecked(j) == Len(ChecksOf(j)) < Len(references[j].urls)

OwnStep(i) ==
    /\ task'[i].pc = "unsubmitted" => task[i].pc = "unsubmitted"
    /\ task'[i].pc = "queued" => task[i].pc \in {"unsubmitted", "queued"}
    /\ task'[i].pc = "arxiv" => task[i].pc \in {"queued", "arxiv"}
    /\ references'[i] # references[i] =>
          /\ i \in Running
          /\ task'[i] # task[i]
    /\ (i \in Running /\ task'[i] # task[i]) =>
          /\ \A j \in 1..N : j # i => task'[j] = task[j] /\ references'[j] = references[j]
          /\ mainVars' = mainVars
          /\ confVars' = confVars
          /\ serpapi_index' # serpapi_index => serpapi_lock = i

\* C29: during a batch every position of the list gets one task, which is
\* queued once and started once; a reference is changed by the steps of its
\* own task only and while that task runs; a step of a worker changes nothing
\* of another task or reference, nothing of the handler's state and nothing
\* of the linker's configuration: the one field written by several workers is
\* serpapi_index (with the lock that guards it).
C29_OwnedRecords ==
    [][/\ Len(task') = Len(references')
       /\ Len(references') = Len(references)
       /\ \A i \in 1..N : OwnStep(i)]_vars

\* two workers at work in the same state, each inside the SerpAPI request for
\* its own reference, with different keys drawn from the shared pool
C29_Witness ==
    /\ N = 2
    /\ Running = {1, 2}
    /\ Len(draws) >= 2
    /\ \E a, b \in 1..Len(draws) : draws[a] # draws[b]
    /\ task[1].pc = "serpapi_request"
    /\ task[2].pc = "serpapi_request"

\* C30: when every request of the batch is answered (it returns, fails or
\* times out) and the threads are scheduled, the batch terminates: every
\* reference submitted is processed to its end by a pool thread, enrich
\* returns and the handler returns its answer, whether the references are
\* fewer or more than max_workers.
C30_BatchTerminates ==
    <>[](/\ Finished = 1..N
         /\ Range(yielded) = 1..N
         /\ main_pc \in {"done", "rejected"}
         /\ main_pc = "done" => Len(final_references) = N)

\* more references than threads, and the handler has returned its answer
C30_Witness ==
    /\ N = 2
    /\ max_workers = 1
    /\ main_pc = "done"
    /\ Finished = {1, 2}
    /\ Len(final_references) = 2

(***************************************************************************)
(* Properties of the key draws of one invocation                           *)
(***************************************************************************)
\* C31 as claimed: the keys one invocation of _search_serpapi draws for its
\* successive attempts are pairwise distinct, also while other workers draw
\* from the same pool.
C31_KeysOfInvocationDistinct ==
    \A i \in 1..N :
        LET mine == DrawsOf(task[i].log)
        IN  \A a, b \in 1..Len(mine) : a # b => mine[a] # mine[b]

\* a pool of two keys and two workers: the first worker draws k1, the second
\* draws k2 and moves the cursor back, the first worker's next attempt draws
\* k1 again
C31_Witness ==
    /\ N = 2
    /\ serpapi_keys = <<"k1", "k2">>
    /\ DrawsOf(task[1].log) = <<"k1", "k1">>
    /\ DrawsOf(task[2].log) = <<"k2">>
    /\ draws = <<"k1", "k2", "k1">>

\* C32 as claimed: a SerpAPI response whose body is no JSON ends the
\* invocation at once with no candidate: it is the last request, no key is
\* drawn after it although attempts remain, the strategy has ended without a
\* URL, and the call has not raised.
C32_MalformedEndsSearch ==
    \A i \in 1..N :
        LET log  == task[i].log
            evs  == SerpapiEvents(log)
            reqs == SerpapiRequests(log)
        IN  \A k \in 1..Len(reqs) :
                reqs[k] = "badjson" =>
                    /\ k = Len(reqs)
                    /\ Len(evs) = 2 * k
                    /\ EndOf(log, "serpapi") = <<Ev("end", "serpapi", "", <<>>)>>
                    /\ task[i].pc = "returned"

\* the first response is no JSON, and the second key is drawn and used
C32_Witness ==
    /\ json_error_is_request_exception
    /\ SerpapiRequests(task[1].log) = <<"badjson", "ok">>
    /\ draws = <<"k1", "k2">>
    /\ task[1].pc = "returned"
    /\ references[1].urls = <<U3>>

(***************************************************************************)
(* Number and order of the requests of one check_url call                  *)
(***************************************************************************)
\* a probe that did not give a usable answer: timeout, request error, crash
\* or a status code of 400 and above
FailedProbe(p) ==
    \/ p.outcome.kind \in {"timeout", "reqerror", "error"}
    \/ p.outcome.kind = "code" /\ p.outcome.code >= 400

\* C33: one call of check_url issues at most two requests, a HEAD first and
\* then at most one GET, all for the same normalized URL, and a method whose
\* probe failed is never issued a second time in that call.
C33_AtMostTwoProbes ==
    /\ Len(probes) <= 2
    /\ \A a, b \in 1..Len(probes) :
           a < b => /\ probes[a].method = "head"
                    /\ probes[b].method = "get"
                    /\ probes[a].url = probes[b].url
    /\ \A a, b \in 1..Len(probes) :
           (a # b /\ FailedProbe(probes[a])) => probes[a].method # probes[b].method
    /\ Len(probes) = 1 => probes[1].method = "head"

\* a HEAD answered 500 and the fallback GET failed with a request error: the
\* call is over with "Broken" after exactly these two requests
C33_Witness ==
    /\ cu_pc = "done"
    /\ cu_result = "Broken"
    /\ Methods = <<"head", "get">>
    /\ probes[1].outcome = [kind |-> "code", code |-> 500]
    /\ probes[2].outcome.kind = "reqerror"

=============================================================================
